---- MODULE Spec2Model ----
(***************************************************************************)
(* Binary search tree of AppliedGo/bintree (key/payload implementation,    *)
(* bintree.go lines 101-453).  Nodes live in a heap indexed by node        *)
(* identities; a pointer is a node identity or Nil.  String keys are       *)
(* modelled by the integers 1..MaxKey under their usual order (an          *)
(* order-isomorphic image of "a" < "b" < ...); 0 stands for the zero       *)
(* string "" of a Node literal that leaves Value unset.                    *)
(***************************************************************************)
EXTENDS Integers, FiniteSets, Sequences, TLC

MaxKey == 4
MaxData == 2

Nil == 0
Keys == 1..MaxKey
DataVals == 1..MaxData
NodeIds == 1..(MaxKey + 1)

NoErr == "nil"
ErrNilInsert == "Cannot insert a value into a nil tree"
ErrNilReplace == "replaceNode() not allowed on a nil node"
ErrNotFound == "Value to be deleted does not exist in the tree"
ErrEmptyTree == "Cannot delete from an empty tree"

VARIABLES Root, heap, call, ret, preRoot, preHeap, inserted

vars == <<Root, heap, call, ret, preRoot, preHeap, inserted>>

(* &Node{Value: v, Data: d, Left: l, Right: r} *)
Node(v, d, l, r) == [Value |-> v, Data |-> d, Left |-> l, Right |-> r]

(* A fresh address: one that no allocated node has. *)
New(h) == CHOOSE i \in NodeIds \ DOMAIN h : \A j \in NodeIds \ DOMAIN h : i <= j

(* The heap h with a new node rec stored at the fresh address n. *)
Alloc(h, n, rec) == (n :> rec) @@ h

RECURSIVE Reach(_, _)
Reach(h, n) ==
    IF n = Nil THEN {}
    ELSE {n} \cup Reach(h, h[n].Left) \cup Reach(h, h[n].Right)

(* Nodes that no pointer path from root reaches are reclaimed. *)
Collect(h, root) == [i \in Reach(h, root) |-> h[i]]

(* Node.Insert that overwrites the payload of a key it already holds. *)
RECURSIVE NodeInsertUpsert(_, _, _, _)
NodeInsertUpsert(h, n, value, data) ==
    IF n = Nil THEN [h |-> h, err |-> ErrNilInsert]
    ELSE IF value = h[n].Value THEN [h |-> [h EXCEPT ![n].Data = data], err |-> NoErr]
    ELSE IF value < h[n].Value THEN
        IF h[n].Left = Nil
        THEN LET m == New(h)
             IN [h |-> [Alloc(h, m, Node(value, data, Nil, Nil)) EXCEPT ![n].Left = m],
                 err |-> NoErr]
        ELSE NodeInsertUpsert(h, h[n].Left, value, data)
    ELSE
        IF h[n].Right = Nil
        THEN LET m == New(h)
             IN [h |-> [Alloc(h, m, Node(value, data, Nil, Nil)) EXCEPT ![n].Right = m],
                 err |-> NoErr]
        ELSE NodeInsertUpsert(h, h[n].Right, value, data)

RECURSIVE NodeInsert(_, _, _, _)
NodeInsert(h, n, value, data) ==
    IF n = Nil THEN [h |-> h, err |-> ErrNilInsert]
    ELSE IF value = h[n].Value THEN [h |-> h, err |-> NoErr]
    ELSE IF value < h[n].Value THEN
        IF h[n].Left = Nil
        THEN LET m == New(h)
             IN [h |-> [Alloc(h, m, Node(value, data, Nil, Nil)) EXCEPT ![n].Left = m],
                 err |-> NoErr]
        ELSE NodeInsert(h, h[n].Left, value, data)
    ELSE
        IF h[n].Right = Nil
        THEN LET m == New(h)
             IN [h |-> [Alloc(h, m, Node(value, data, Nil, Nil)) EXCEPT ![n].Right = m],
                 err |-> NoErr]
        ELSE NodeInsert(h, h[n].Right, value, data)

RECURSIVE NodeFind(_, _, _)
NodeFind(h, n, s) ==
    IF n = Nil THEN [data |-> 0, found |-> FALSE]
    ELSE IF s = h[n].Value THEN [data |-> h[n].Data, found |-> TRUE]
    ELSE IF s < h[n].Value THEN NodeFind(h, h[n].Left, s)
    ELSE NodeFind(h, h[n].Right, s)

(* findMax that stops at the subtree's top node instead of descending right. *)
findMaxNoDescent(h, n, parent) == <<n, parent>>

(* findMax that descends to the left, finding the minimum. *)
RECURSIVE findMaxWrongSide(_, _, _)
findMaxWrongSide(h, n, parent) ==
    IF n = Nil THEN <<Nil, parent>>
    ELSE IF h[n].Left = Nil THEN <<n, parent>>
    ELSE findMaxWrongSide(h, h[n].Left, n)

RECURSIVE findMax(_, _, _)
findMax(h, n, parent) ==
    IF n = Nil THEN <<Nil, parent>>
    ELSE IF h[n].Right = Nil THEN <<n, parent>>
    ELSE findMax(h, h[n].Right, n)

(* replaceNode that overwrites the parent's right pointer on either side. *)
replaceNodeAlwaysRight(h, n, parent, replacement) ==
    IF n = Nil THEN [h |-> h, err |-> ErrNilReplace]
    ELSE [h |-> [h EXCEPT ![parent].Right = replacement], err |-> NoErr]

(* replaceNode without the return after rewriting the left pointer. *)
replaceNodeFallsThrough(h, n, parent, replacement) ==
    IF n = Nil THEN [h |-> h, err |-> ErrNilReplace]
    ELSE IF n = h[parent].Left
    THEN [h |-> [h EXCEPT ![parent].Left = replacement, ![parent].Right = replacement],
          err |-> NoErr]
    ELSE [h |-> [h EXCEPT ![parent].Right = replacement], err |-> NoErr]

replaceNode(h, n, parent, replacement) ==
    IF n = Nil THEN [h |-> h, err |-> ErrNilReplace]
    ELSE IF n = h[parent].Left
    THEN [h |-> [h EXCEPT ![parent].Left = replacement], err |-> NoErr]
    ELSE [h |-> [h EXCEPT ![parent].Right = replacement], err |-> NoErr]

(* Node.Delete that treats a missing key as nothing to do. *)
RECURSIVE NodeDeleteIgnoresMissing(_, _, _, _)
NodeDeleteIgnoresMissing(h, n, s, parent) ==
    IF n = Nil THEN [h |-> h, err |-> NoErr]
    ELSE IF s < h[n].Value THEN NodeDeleteIgnoresMissing(h, h[n].Left, s, n)
    ELSE IF s > h[n].Value THEN NodeDeleteIgnoresMissing(h, h[n].Right, s, n)
    ELSE IF h[n].Left = Nil /\ h[n].Right = Nil
    THEN [h |-> replaceNode(h, n, parent, Nil).h, err |-> NoErr]
    ELSE IF h[n].Left = Nil
    THEN [h |-> replaceNode(h, n, parent, h[n].Right).h, err |-> NoErr]
    ELSE IF h[n].Right = Nil
    THEN [h |-> replaceNode(h, n, parent, h[n].Left).h, err |-> NoErr]
    ELSE LET fm == findMax(h, h[n].Left, n)
             replacement == fm[1]
             replParent == fm[2]
             h2 == [h EXCEPT ![n].Value = h[replacement].Value,
                             ![n].Data = h[replacement].Data]
         IN NodeDeleteIgnoresMissing(h2, replacement, h2[replacement].Value, replParent)

RECURSIVE NodeDelete(_, _, _, _)
NodeDelete(h, n, s, parent) ==
    IF n = Nil THEN [h |-> h, err |-> ErrNotFound]
    ELSE IF s < h[n].Value THEN NodeDelete(h, h[n].Left, s, n)
    ELSE IF s > h[n].Value THEN NodeDelete(h, h[n].Right, s, n)
    ELSE IF h[n].Left = Nil /\ h[n].Right = Nil
    THEN [h |-> replaceNode(h, n, parent, Nil).h, err |-> NoErr]
    ELSE IF h[n].Left = Nil
    THEN [h |-> replaceNode(h, n, parent, h[n].Right).h, err |-> NoErr]
    ELSE IF h[n].Right = Nil
    THEN [h |-> replaceNode(h, n, parent, h[n].Left).h, err |-> NoErr]
    ELSE LET fm == findMax(h, h[n].Left, n)
             replacement == fm[1]
             replParent == fm[2]
             h2 == [h EXCEPT ![n].Value = h[replacement].Value,
                             ![n].Data = h[replacement].Data]
         IN NodeDelete(h2, replacement, h2[replacement].Value, replParent)

(* Tree.Insert that creates the root without its payload. *)
TreeInsertRootNoData(h, root, value, data) ==
    IF root = Nil
    THEN LET m == New(h)
         IN [h |-> Alloc(h, m, Node(value, 0, Nil, Nil)), root |-> m, err |-> NoErr]
    ELSE LET r == NodeInsert(h, root, value, data)
         IN [h |-> r.h, root |-> root, err |-> r.err]

TreeInsert(h, root, value, data) ==
    IF root = Nil
    THEN LET m == New(h)
         IN [h |-> Alloc(h, m, Node(value, data, Nil, Nil)), root |-> m, err |-> NoErr]
    ELSE LET r == NodeInsert(h, root, value, data)
         IN [h |-> r.h, root |-> root, err |-> r.err]

TreeFind(h, root, s) ==
    IF root = Nil THEN [data |-> 0, found |-> FALSE]
    ELSE NodeFind(h, root, s)

(* Tree.Delete without the reconciliation of Root after the delete. *)
TreeDeleteKeepsRoot(h, root, s) ==
    IF root = Nil THEN [h |-> h, root |-> root, err |-> ErrEmptyTree]
    ELSE LET fakeParent == New(h)
             h1 == Alloc(h, fakeParent, Node(0, 0, Nil, root))
             r == NodeDelete(h1, root, s, fakeParent)
         IN [h |-> r.h, root |-> root, err |-> r.err]

(* Tree.Delete without the empty-tree check. *)
TreeDeleteNoEmptyCheck(h, root, s) ==
    LET fakeParent == New(h)
        h1 == Alloc(h, fakeParent, Node(0, 0, Nil, root))
        r == NodeDelete(h1, root, s, fakeParent)
    IN IF r.err # NoErr THEN [h |-> r.h, root |-> root, err |-> r.err]
       ELSE IF r.h[fakeParent].Right = Nil
       THEN [h |-> r.h, root |-> Nil, err |-> NoErr]
       ELSE [h |-> r.h, root |-> root, err |-> NoErr]

(* Tree.Delete that takes Root from the fake parent's right pointer. *)
TreeDeleteRootFromFake(h, root, s) ==
    IF root = Nil THEN [h |-> h, root |-> root, err |-> ErrEmptyTree]
    ELSE LET fakeParent == New(h)
             h1 == Alloc(h, fakeParent, Node(0, 0, Nil, root))
             r == NodeDelete(h1, root, s, fakeParent)
         IN IF r.err # NoErr THEN [h |-> r.h, root |-> root, err |-> r.err]
            ELSE [h |-> r.h, root |-> r.h[fakeParent].Right, err |-> NoErr]

TreeDelete(h, root, s) ==
    IF root = Nil THEN [h |-> h, root |-> root, err |-> ErrEmptyTree]
    ELSE LET fakeParent == New(h)
             h1 == Alloc(h, fakeParent, Node(0, 0, Nil, root))
             r == NodeDelete(h1, root, s, fakeParent)
         IN IF r.err # NoErr THEN [h |-> r.h, root |-> root, err |-> r.err]
            ELSE IF r.h[fakeParent].Right = Nil
            THEN [h |-> r.h, root |-> Nil, err |-> NoErr]
            ELSE [h |-> r.h, root |-> root, err |-> NoErr]

(* Traverse that visits a node before its left subtree. *)
RECURSIVE TraversePreOrder(_, _)
TraversePreOrder(h, n) ==
    IF n = Nil THEN <<>>
    ELSE <<n>> \o TraversePreOrder(h, h[n].Left) \o TraversePreOrder(h, h[n].Right)

RECURSIVE Traverse(_, _)
Traverse(h, n) ==
    IF n = Nil THEN <<>>
    ELSE Traverse(h, h[n].Left) \o <<n>> \o Traverse(h, h[n].Right)

(***************************************************************************)
(* The program sees a pointer only through nil tests, equality tests and   *)
(* dereferences, so two heaps that differ by a renaming of addresses are   *)
(* one program state.  Each call is taken from the representative whose    *)
(* nodes are numbered in traversal order; the heap after the call keeps    *)
(* the addresses of that representative, so that the identity of a node    *)
(* across the call is kept.                                                *)
(***************************************************************************)
RECURSIVE Flat(_, _, _)
Flat(h, n, base) ==
    IF n = Nil THEN [cells |-> <<>>, top |-> Nil]
    ELSE LET l == Flat(h, h[n].Left, base)
             me == base + Len(l.cells) + 1
             r == Flat(h, h[n].Right, me)
         IN [cells |-> l.cells \o <<Node(h[n].Value, h[n].Data, l.top, r.top)>> \o r.cells,
             top |-> me]

(* The tree under its normal addresses: cells is the heap, top the root. *)
Norm == Flat(heap, Root, 0)

Init ==
    /\ Root = Nil
    /\ heap = <<>>
    /\ call = [op |-> "new", key |-> 0, data |-> 0]
    /\ ret = [err |-> NoErr, data |-> 0, found |-> FALSE]
    /\ preRoot = Nil
    /\ preHeap = <<>>
    /\ inserted = {}

(* One call together with what it leaves behind: the heap after the call,
   without the nodes that became unreachable, and the heap before it. *)
Record(op, k, d, h0, root0, r, res) ==
    /\ Root' = r.root
    /\ heap' = Collect(r.h, r.root)
    /\ call' = [op |-> op, key |-> k, data |-> d]
    /\ ret' = res
    /\ preRoot' = root0
    /\ preHeap' = h0

Insert(k, d) ==
    \E t \in {Norm} : \E r \in {TreeInsert(t.cells, t.top, k, d)} :
        /\ Record("Insert", k, d, t.cells, t.top, r,
                  [err |-> r.err, data |-> 0, found |-> FALSE])
        /\ UNCHANGED inserted

Find(k) ==
    \E t \in {Norm} : \E r \in {TreeFind(t.cells, t.top, k)} :
        /\ Record("Find", k, 0, t.cells, t.top, [h |-> t.cells, root |-> t.top],
                  [err |-> NoErr, data |-> r.data, found |-> r.found])
        /\ UNCHANGED inserted

Delete(k) ==
    \E t \in {Norm} : \E r \in {TreeDelete(t.cells, t.top, k)} :
        /\ Record("Delete", k, 0, t.cells, t.top, r,
                  [err |-> r.err, data |-> 0, found |-> FALSE])
        /\ UNCHANGED inserted

Next ==
    \/ \E k \in Keys, d \in DataVals : Insert(k, d)
    \/ \E k \in Keys : Find(k)
    \/ \E k \in Keys : Delete(k)

Spec == Init /\ [][Next]_vars

(* A run that fills a tree and calls nothing but Insert, as main does
   before it prints the sorted values; inserted keeps the keys passed to
   Insert so far.  Runs of Spec, which may delete, do not keep it. *)
InsertOnly(k, d) ==
    \E t \in {Norm} : \E r \in {TreeInsert(t.cells, t.top, k, d)} :
        /\ Record("Insert", k, d, t.cells, t.top, r,
                  [err |-> r.err, data |-> 0, found |-> FALSE])
        /\ inserted' = inserted \cup {k}

NextInsertOnly == \E k \in Keys, d \in DataVals : InsertOnly(k, d)

SpecInsertOnly == Init /\ [][NextInsertOnly]_vars

(***************************************************************************)
(* The key-only variant (bintree.go lines 546-828): a node holds a Value   *)
(* and no Data, Find returns the node, Tree.Delete passes a nil parent,    *)
(* and replaceNode and Node.Delete differ from the key/payload variant.    *)
(* Its heaps can share a node between two pointers, so its calls are taken *)
(* from the heap as it is, and Insert needs a free address.                *)
(***************************************************************************)
KeyOnlyNode(v, l, r) == [Value |-> v, Left |-> l, Right |-> r]

RECURSIVE KeyOnlyNodeInsert(_, _, _)
KeyOnlyNodeInsert(h, n, s) ==
    IF n = Nil THEN [h |-> h, err |-> ErrNilInsert]
    ELSE IF s = h[n].Value THEN [h |-> h, err |-> NoErr]
    ELSE IF s < h[n].Value THEN
        IF h[n].Left = Nil
        THEN LET m == New(h)
             IN [h |-> [Alloc(h, m, KeyOnlyNode(s, Nil, Nil)) EXCEPT ![n].Left = m],
                 err |-> NoErr]
        ELSE KeyOnlyNodeInsert(h, h[n].Left, s)
    ELSE
        IF h[n].Right = Nil
        THEN LET m == New(h)
             IN [h |-> [Alloc(h, m, KeyOnlyNode(s, Nil, Nil)) EXCEPT ![n].Right = m],
                 err |-> NoErr]
        ELSE KeyOnlyNodeInsert(h, h[n].Right, s)

RECURSIVE KeyOnlyNodeFind(_, _, _)
KeyOnlyNodeFind(h, n, s) ==
    IF n = Nil THEN [node |-> Nil, err |-> NoErr]
    ELSE IF s = h[n].Value THEN [node |-> n, err |-> NoErr]
    ELSE IF s < h[n].Value THEN KeyOnlyNodeFind(h, h[n].Left, s)
    ELSE KeyOnlyNodeFind(h, h[n].Right, s)

RECURSIVE KeyOnlyfindMax(_, _, _)
KeyOnlyfindMax(h, n, parent) ==
    IF h[n].Right = Nil THEN <<n, parent>>
    ELSE KeyOnlyfindMax(h, h[n].Right, n)

KeyOnlyreplaceNode(h, n, parent, replacement) ==
    IF n = Nil THEN [h |-> h, err |-> ErrNilReplace]
    ELSE IF parent = Nil THEN [h |-> h, err |-> NoErr]
    ELSE LET h1 == IF n = h[parent].Left
                   THEN [h EXCEPT ![parent].Left = replacement]
                   ELSE h
         IN [h |-> [h1 EXCEPT ![parent].Right = replacement], err |-> NoErr]

RECURSIVE KeyOnlyNodeDelete(_, _, _, _)
KeyOnlyNodeDelete(h, n, s, parent) ==
    IF n = Nil THEN [h |-> h, err |-> ErrNotFound]
    ELSE IF s < h[n].Value THEN KeyOnlyNodeDelete(h, h[n].Left, s, n)
    ELSE IF s > h[n].Value THEN KeyOnlyNodeDelete(h, h[n].Right, s, n)
    ELSE IF h[n].Left = Nil /\ h[n].Right = Nil
    THEN [h |-> KeyOnlyreplaceNode(h, n, parent, Nil).h, err |-> NoErr]
    ELSE IF h[n].Left = Nil
    THEN [h |-> KeyOnlyreplaceNode(h, n, parent, h[n].Right).h, err |-> NoErr]
    ELSE IF h[n].Right = Nil
    THEN [h |-> KeyOnlyreplaceNode(h, n, parent, h[n].Left).h, err |-> NoErr]
    ELSE LET fm == KeyOnlyfindMax(h, h[n].Left, n)
             replacement == fm[1]
             replParent == fm[2]
             h2 == [h EXCEPT ![n].Value = h[replacement].Value]
         IN KeyOnlyNodeDelete(h2, replacement, s, replParent)

KeyOnlyTreeInsert(h, root, s) ==
    IF root = Nil
    THEN LET m == New(h)
         IN [h |-> Alloc(h, m, KeyOnlyNode(s, Nil, Nil)), root |-> m, err |-> NoErr]
    ELSE LET r == KeyOnlyNodeInsert(h, root, s)
         IN [h |-> r.h, root |-> root, err |-> r.err]

KeyOnlyTreeFind(h, root, s) ==
    IF root = Nil THEN [node |-> Nil, err |-> NoErr]
    ELSE KeyOnlyNodeFind(h, root, s)

KeyOnlyTreeDelete(h, root, s) ==
    IF root = Nil THEN [h |-> h, root |-> root, err |-> ErrEmptyTree]
    ELSE LET root1 == IF s = h[root].Value /\ h[root].Left = Nil /\ h[root].Right = Nil
                      THEN Nil ELSE root
             r == KeyOnlyNodeDelete(h, root1, s, Nil)
         IN [h |-> r.h, root |-> root1, err |-> r.err]

KeyOnlyInsert(k) ==
    /\ NodeIds \ DOMAIN heap # {}
    /\ \E r \in {KeyOnlyTreeInsert(heap, Root, k)} :
           /\ Record("Insert", k, 0, heap, Root, r, [err |-> r.err, node |-> Nil])
           /\ UNCHANGED inserted

KeyOnlyFind(k) ==
    \E r \in {KeyOnlyTreeFind(heap, Root, k)} :
        /\ Record("Find", k, 0, heap, Root, [h |-> heap, root |-> Root],
                  [err |-> r.err, node |-> r.node])
        /\ UNCHANGED inserted

KeyOnlyDelete(k) ==
    \E r \in {KeyOnlyTreeDelete(heap, Root, k)} :
        /\ Record("Delete", k, 0, heap, Root, r, [err |-> r.err, node |-> Nil])
        /\ UNCHANGED inserted

NextKeyOnly ==
    \/ \E k \in Keys : KeyOnlyInsert(k)
    \/ \E k \in Keys : KeyOnlyFind(k)
    \/ \E k \in Keys : KeyOnlyDelete(k)

SpecKeyOnly == Init /\ [][NextKeyOnly]_vars

(***************************************************************************)
(* Vocabulary of the properties: what a heap holds, read declaratively     *)
(* (by reachability, not by the search the operations perform).            *)
(***************************************************************************)
KeysOf(h, n) == {h[i].Value : i \in Reach(h, n)}

BSTOrdered(h, root) ==
    \A n \in Reach(h, root) :
        /\ \A i \in Reach(h, h[n].Left) : h[i].Value < h[n].Value
        /\ \A i \in Reach(h, h[n].Right) : h[i].Value > h[n].Value

TraverseKeys(h, root) ==
    LET t == Traverse(h, root) IN [i \in 1..Len(t) |-> h[t[i]].Value]

StrictlyAscending(s) == \A i \in 1..(Len(s) - 1) : s[i] < s[i + 1]

Size(h, root) == Len(Traverse(h, root))

HasKey(h, root, k) == \E i \in Reach(h, root) : h[i].Value = k

NodeOf(h, root, k) == CHOOSE i \in Reach(h, root) : h[i].Value = k

MaxNode(h, n) == CHOOSE i \in Reach(h, n) : \A j \in Reach(h, n) : h[j].Value <= h[i].Value

SubtreeSame(h1, h2, n) == \A i \in Reach(h1, n) : i \in DOMAIN h2 /\ h2[i] = h1[i]

TwoChildren(h, n) == h[n].Left # Nil /\ h[n].Right # Nil

OneChild(h, n) == (h[n].Left = Nil) # (h[n].Right = Nil)

SoleChild(h, n) == IF h[n].Left # Nil THEN h[n].Left ELSE h[n].Right

Deleted == call.op = "Delete"

Inserted == call.op = "Insert"

(* C1: every reachable tree is ordered as a search tree: at every node all
   keys to the left are strictly smaller and all keys to the right strictly
   greater, and the in-order traversal from Root is strictly ascending. *)
C1_Ordered ==
    /\ BSTOrdered(heap, Root)
    /\ StrictlyAscending(TraverseKeys(heap, Root))

C1_Witness ==
    /\ Deleted /\ ret.err = NoErr
    /\ HasKey(preHeap, preRoot, call.key)
    /\ TwoChildren(preHeap, NodeOf(preHeap, preRoot, call.key))
    /\ Size(heap, Root) >= 3
    /\ Root # Nil /\ TwoChildren(heap, Root)

(* C2: a Delete(k) that returns no error leaves k not found and every other
   key found or not found, with the same payload, exactly as before. *)
C2_DeleteRemovesExactlyK ==
    (Deleted /\ ret.err = NoErr) =>
        /\ ~TreeFind(heap, Root, call.key).found
        /\ \A k \in Keys \ {call.key} :
               TreeFind(heap, Root, k) = TreeFind(preHeap, preRoot, k)

(* C3: Delete of the root's key when the root has exactly one child makes
   that child the new Root, with the child's subtree unchanged. *)
C3_SingleChildRootSpliced ==
    (Deleted /\ preRoot # Nil /\ call.key = preHeap[preRoot].Value
        /\ OneChild(preHeap, preRoot)) =>
        /\ Root = SoleChild(preHeap, preRoot)
        /\ SubtreeSame(preHeap, heap, SoleChild(preHeap, preRoot))

ParentOf(h, root, c) == CHOOSE p \in Reach(h, root) : h[p].Left = c \/ h[p].Right = c

IsLeaf(h, n) == h[n].Left = Nil /\ h[n].Right = Nil

(* The case of C4: the last call was a Delete of a key held by a node with
   two children. *)
DeletedInner ==
    /\ Deleted
    /\ HasKey(preHeap, preRoot, call.key)
    /\ TwoChildren(preHeap, NodeOf(preHeap, preRoot, call.key))

(* C4: Delete of a key held by a node with two children returns no error,
   keeps that node where it is, gives it the key and payload of the
   maximum-key node of its left subtree, removes that predecessor node
   (whose left child, if any, takes its place), and changes nothing else;
   in particular the node's right subtree is unchanged. *)
C4_InnerDeleteCopiesPredecessor ==
    DeletedInner =>
        LET n == NodeOf(preHeap, preRoot, call.key)
            pred == MaxNode(preHeap, preHeap[n].Left)
            pp == ParentOf(preHeap, preRoot, pred)
        IN /\ ret.err = NoErr
           /\ Root = preRoot
           /\ DOMAIN heap = DOMAIN preHeap \ {pred}
           /\ heap[n].Value = preHeap[pred].Value
           /\ heap[n].Data = preHeap[pred].Data
           /\ heap[n].Right = preHeap[n].Right
           /\ SubtreeSame(preHeap, heap, preHeap[n].Right)
           /\ IF pp = n
              THEN heap[n].Left = preHeap[pred].Left
              ELSE /\ heap[n].Left = preHeap[n].Left
                   /\ heap[pp] = [preHeap[pp] EXCEPT !.Right = preHeap[pred].Left]
           /\ \A i \in DOMAIN preHeap \ {n, pred, pp} : heap[i] = preHeap[i]

C4_Witness ==
    /\ DeletedInner
    /\ LET n == NodeOf(preHeap, preRoot, call.key)
           pred == MaxNode(preHeap, preHeap[n].Left)
       IN /\ preHeap[pred].Left # Nil
          /\ preHeap[pred].Data # preHeap[n].Data
          /\ heap[n].Left = preHeap[pred].Left

(* C5: Delete of the key of a root that is the only node returns no error
   and leaves the tree empty. *)
C5_SoleRootDeleteEmpties ==
    (Deleted /\ preRoot # Nil /\ IsLeaf(preHeap, preRoot)
        /\ call.key = preHeap[preRoot].Value) =>
        /\ ret.err = NoErr
        /\ Root = Nil
        /\ DOMAIN heap = {}

C5_Witness ==
    /\ Deleted /\ preRoot # Nil /\ IsLeaf(preHeap, preRoot)
    /\ call.key = preHeap[preRoot].Value
    /\ Root = Nil

(* C6: Insert(k, p) of a key k that the tree does not hold returns no error,
   and Find(k) on the resulting tree returns (p, true). *)
C6_InsertThenFind ==
    (Inserted /\ ~HasKey(preHeap, preRoot, call.key)) =>
        /\ ret.err = NoErr
        /\ TreeFind(heap, Root, call.key) = [data |-> call.data, found |-> TRUE]

C6_Witness ==
    /\ Inserted /\ ~HasKey(preHeap, preRoot, call.key)
    /\ Size(preHeap, preRoot) >= 2
    /\ TreeFind(heap, Root, call.key).found
    /\ ~IsLeaf(heap, Root) /\ heap[Root].Value # call.key

(* C7: Insert(k, p2) of a key k that the tree already holds returns no error
   and changes nothing: the same nodes, pointers, keys and payloads, so
   Find(k) still returns the payload k had before. *)
C7_DuplicateInsertNoOp ==
    (Inserted /\ HasKey(preHeap, preRoot, call.key)) =>
        /\ ret.err = NoErr
        /\ Root = preRoot
        /\ heap = preHeap
        /\ TreeFind(heap, Root, call.key) =
               [data |-> preHeap[NodeOf(preHeap, preRoot, call.key)].Data, found |-> TRUE]

C7_Witness ==
    /\ Inserted /\ HasKey(preHeap, preRoot, call.key)
    /\ call.data # preHeap[NodeOf(preHeap, preRoot, call.key)].Data
    /\ NodeOf(preHeap, preRoot, call.key) # preRoot
    /\ heap = preHeap

(* C8: the number of nodes reachable from Root goes down by exactly 1 on a
   Delete that returns no error, up by exactly 1 on an Insert of a key not
   yet in the tree, and stays the same on an Insert of a key already in it. *)
C8_SizeConservation ==
    /\ (Deleted /\ ret.err = NoErr) =>
           Size(heap, Root) = Size(preHeap, preRoot) - 1
    /\ (Inserted /\ ~HasKey(preHeap, preRoot, call.key)) =>
           Size(heap, Root) = Size(preHeap, preRoot) + 1
    /\ (Inserted /\ HasKey(preHeap, preRoot, call.key)) =>
           Size(heap, Root) = Size(preHeap, preRoot)

(* C9: Delete of a key that a non-empty tree does not hold returns the
   not-found error and leaves Root and every node unchanged. *)
C9_DeleteMissingKeyFails ==
    (Deleted /\ preRoot # Nil /\ ~HasKey(preHeap, preRoot, call.key)) =>
        /\ ret.err = ErrNotFound
        /\ Root = preRoot
        /\ heap = preHeap

C9_Witness ==
    /\ Deleted /\ preRoot # Nil /\ ~HasKey(preHeap, preRoot, call.key)
    /\ Size(preHeap, preRoot) >= 3
    /\ ret.err = ErrNotFound

(* C10: Delete on an empty tree returns the empty-tree error for any key and
   the tree stays empty. *)
C10_DeleteOnEmptyFails ==
    (Deleted /\ preRoot = Nil) =>
        /\ ret.err = ErrEmptyTree
        /\ Root = Nil
        /\ DOMAIN heap = {}

C10_Witness ==
    /\ Deleted /\ preRoot = Nil
    /\ ret.err = ErrEmptyTree
    /\ call.key = MaxKey

RECURSIVE SortedSeq(_)
SortedSeq(S) ==
    IF S = {} THEN <<>>
    ELSE LET m == CHOOSE x \in S : \A y \in S : x <= y
         IN <<m>> \o SortedSeq(S \ {m})

(* C11: in a run of Insert calls only, Traverse from Root visits every key
   inserted so far exactly once and in ascending order: the visited keys
   are the sorted list of the distinct inserted keys. *)
C11_TraverseSortsInserted ==
    TraverseKeys(heap, Root) = SortedSeq(inserted)

C11_Witness ==
    /\ inserted = Keys
    /\ Inserted /\ HasKey(preHeap, preRoot, call.key)
    /\ TwoChildren(heap, Root)
    /\ \E i \in DOMAIN heap : i # Root /\ ~IsLeaf(heap, i)

InDegree(h, i) ==
    Cardinality({p \in DOMAIN h : h[p].Left = i}) + Cardinality({p \in DOMAIN h : h[p].Right = i})

RECURSIVE Within(_, _, _)
Within(h, n, steps) ==
    IF n = Nil \/ steps = 0 THEN {}
    ELSE {n} \cup Within(h, h[n].Left, steps - 1) \cup Within(h, h[n].Right, steps - 1)

OnCycle(h, i) ==
    i \in Within(h, h[i].Left, Cardinality(DOMAIN h))
             \cup Within(h, h[i].Right, Cardinality(DOMAIN h))

(* C12: the nodes reachable from Root form a tree: Root is nobody's child,
   every other node is the child of exactly one parent on exactly one side,
   and no node is its own descendant. *)
C12_TreeShaped ==
    \A i \in Reach(heap, Root) :
        /\ InDegree(heap, i) = IF i = Root THEN 0 ELSE 1
        /\ ~OnCycle(heap, i)

C12_Witness ==
    /\ Deleted /\ ret.err = NoErr
    /\ HasKey(preHeap, preRoot, call.key)
    /\ LET n == NodeOf(preHeap, preRoot, call.key)
       IN /\ n # preRoot
          /\ preHeap[n].Left # Nil /\ preHeap[n].Right = Nil
          /\ preHeap[ParentOf(preHeap, preRoot, n)].Left = n
          /\ preHeap[ParentOf(preHeap, preRoot, n)].Right # Nil
          /\ n \notin DOMAIN heap

(* The call of findMax that the two-children branch of the last Delete made,
   the heap after the copy of key and payload, and the parent's two child
   pointers. *)
FoundMax == LET n == NodeOf(preHeap, preRoot, call.key)
            IN findMax(preHeap, preHeap[n].Left, n)

CopiedUp == LET n == NodeOf(preHeap, preRoot, call.key)
            IN [preHeap EXCEPT ![n].Value = preHeap[FoundMax[1]].Value,
                               ![n].Data = preHeap[FoundMax[1]].Data]

(* C13: in the two-children case the node that findMax returns has no right
   child and is a child of the parent returned with it; the recursive Delete
   on it does no more than replace it by its left child (the zero-child or
   one-child branch) and returns no error; so a Delete of a key that the
   tree holds returns no error. *)
C13_PredecessorRemovable ==
    /\ DeletedInner =>
           LET replacement == FoundMax[1]
               replParent == FoundMax[2]
               rec == NodeDelete(CopiedUp, replacement, CopiedUp[replacement].Value, replParent)
           IN /\ replacement # Nil
              /\ preHeap[replacement].Right = Nil
              /\ replacement \in {preHeap[replParent].Left, preHeap[replParent].Right}
              /\ rec.err = NoErr
              /\ rec.h = replaceNode(CopiedUp, replacement, replParent,
                                     preHeap[replacement].Left).h
    /\ (Deleted /\ HasKey(preHeap, preRoot, call.key)) => ret.err = NoErr

C13_Witness ==
    /\ DeletedInner
    /\ FoundMax[2] # NodeOf(preHeap, preRoot, call.key)
    /\ preHeap[FoundMax[2]].Right = FoundMax[1]
    /\ ret.err = NoErr

(* C14: a Delete never points Root at another node: afterwards Root is the
   node it was before the call or nil, and the fake parent made for the call
   is not reachable from Root. *)
C14_RootNeverRepointed ==
    Deleted =>
        /\ Root \in {preRoot, Nil}
        /\ preRoot # Nil => New(preHeap) \notin Reach(heap, Root)

C14_Witness ==
    /\ Deleted /\ ret.err = NoErr
    /\ preRoot # Nil /\ call.key = preHeap[preRoot].Value
    /\ TwoChildren(preHeap, preRoot)
    /\ Root = preRoot
    /\ heap[Root].Value # call.key

(* The node at which Node.Delete of s, started at n under parent, stops its
   descent, with the parent it has then. *)
RECURSIVE Descent(_, _, _, _)
Descent(h, n, s, parent) ==
    IF n = Nil THEN <<Nil, parent>>
    ELSE IF s < h[n].Value THEN Descent(h, h[n].Left, s, n)
    ELSE IF s > h[n].Value THEN Descent(h, h[n].Right, s, n)
    ELSE <<n, parent>>

(* C15: in the key-only variant, Delete of a key held by a leaf or
   single-child node that is the left child of its parent leaves the
   parent's right pointer and right subtree unchanged. *)
C15_LeftSpliceKeepsRight ==
    LET d == Descent(preHeap, preRoot, call.key, Nil)
        n == d[1]
        parent == d[2]
    IN (Deleted /\ n # Nil /\ parent # Nil /\ preHeap[parent].Left = n
            /\ ~TwoChildren(preHeap, n)) =>
           /\ parent \in DOMAIN heap
           /\ heap[parent].Right = preHeap[parent].Right
           /\ SubtreeSame(preHeap, heap, preHeap[parent].Right)

====
